---- MODULE Spec2Model ----
(***************************************************************************)
(* Model of packages/svelte2tsx/src/helpers/sveltekit.ts: the ledger of    *)
(* added code (insertCode, toVirtualPos, toOriginalPos), the file-kind     *)
(* predicates and upsertKitFile with its four strategies.                  *)
(*                                                                         *)
(* Strings are TLA+ strings; positions are 0-based offsets as in the       *)
(* source, so the text between offsets a and b is SubSeq(s, a + 1, b).     *)
(***************************************************************************)
EXTENDS Integers, Sequences, FiniteSets, TLC

VARIABLES addedCode, last, fileName, settings, source, surround, result, tsAst, magicString

vars == <<addedCode, last, fileName, settings, source, surround, result, tsAst, magicString>>

(***************************************************************************)
(* Bounds of the ledger specifications.                                    *)
(***************************************************************************)
\* number of insertCode calls made on one ledger
MaxInserts == 3
\* length of the original text: positions range over 0..MaxPos
MaxPos == 2
\* longest inserted text
MaxLen == 2

(***************************************************************************)
(* Bounds of the upsertKitFile specification.                              *)
(***************************************************************************)
\* most export statements in a source file
MaxStmts == 2
\* characters of the original text taken by one export statement
StmtWidth == 4

(***************************************************************************)
(* JavaScript string helpers, with the semantics of String.prototype.      *)
(***************************************************************************)
Max(a, b) == IF a >= b THEN a ELSE b

Min(a, b) == IF a <= b THEN a ELSE b

\* s.slice(start): start >= 0
SliceFrom(s, start) == SubSeq(s, Min(start, Len(s)) + 1, Len(s))

\* s.slice(start, end) for start, end >= 0
Slice(s, start, end) == SubSeq(s, Min(start, Len(s)) + 1, Min(end, Len(s)))

\* s.slice(0, -n) for n >= 0. The argument -0 is 0, so n = 0 gives s.slice(0, 0),
\* the empty string, not the whole of s.
SliceDropLast(s, n) == IF n = 0 THEN "" ELSE SubSeq(s, 1, Max(Len(s) - n, 0))

(***************************************************************************)
(* The ledger: AddedCode records, kept in a sequence.                      *)
(***************************************************************************)
AddedCode(generatedPos, originalPos, inserted, total) ==
    [generatedPos |-> generatedPos, originalPos |-> originalPos,
     length |-> Len(inserted), total |-> total, inserted |-> inserted]

\* addedCode.findIndex((c) => c.originalPos > pos), 1-based; 0 when there is none
findIndex(code, pos) ==
    LET hits == {i \in 1..Len(code) : code[i].originalPos > pos}
    IN IF hits = {} THEN 0 ELSE CHOOSE i \in hits : \A j \in hits : i <= j

\* insertCode without the shift of the records after the new one
insertCode_NoShift(code, pos, inserted) ==
    LET idx == findIndex(code, pos)
        prevTotal == IF idx > 1 THEN code[idx - 1].total
                     ELSE IF idx = 0 /\ Len(code) > 0 THEN code[Len(code)].total ELSE 0
        rec == AddedCode(pos + prevTotal, pos, inserted, prevTotal + Len(inserted))
    IN IF idx > 0
       THEN SubSeq(code, 1, idx - 1) \o <<rec>> \o SubSeq(code, idx, Len(code))
       ELSE Append(code, rec)

\* insertCode that always appends
insertCode_Append(code, pos, inserted) ==
    LET prevTotal == IF Len(code) > 0 THEN code[Len(code)].total ELSE 0
    IN Append(code, AddedCode(pos + prevTotal, pos, inserted, prevTotal + Len(inserted)))

insertCode(code, pos, inserted) ==
    LET idx == findIndex(code, pos)
        n == Len(inserted)
    IN IF idx > 0
       THEN LET shifted == [i \in 1..Len(code) |->
                              IF i >= idx
                              THEN [code[i] EXCEPT !.generatedPos = @ + n, !.total = @ + n]
                              ELSE code[i]]
                prevTotal == IF idx > 1 THEN shifted[idx - 1].total ELSE 0
            IN SubSeq(shifted, 1, idx - 1)
               \o <<AddedCode(pos + prevTotal, pos, inserted, prevTotal + n)>>
               \o SubSeq(shifted, idx, Len(code))
       ELSE LET prevTotal == IF Len(code) > 0 THEN code[Len(code)].total ELSE 0
            IN Append(code, AddedCode(pos + prevTotal, pos, inserted, prevTotal + n))

\* the loop of toVirtualPos from record i on: stops at the first record after pos
RECURSIVE virtualTotal(_, _, _)
virtualTotal(pos, code, i) ==
    IF i > Len(code) \/ pos < code[i].originalPos THEN 0
    ELSE code[i].length + virtualTotal(pos, code, i + 1)

\* toVirtualPos that stops at a record placed at pos itself
toVirtualPos_Before(pos, code) ==
    LET RECURSIVE t(_)
        t(i) == IF i > Len(code) \/ pos <= code[i].originalPos THEN 0
                ELSE code[i].length + t(i + 1)
    IN pos + t(1)

toVirtualPos(pos, code) == pos + virtualTotal(pos, code, 1)

\* the loop of toOriginalPos: the index (0-based, as in the source) it stops at
RECURSIVE originalIdx(_, _, _)
originalIdx(pos, code, idx) ==
    IF idx >= Len(code) \/ pos < code[idx + 1].generatedPos THEN idx
    ELSE originalIdx(pos, code, idx + 1)

\* the lengths added up by the loop of toOriginalPos: those of records 0..idx-1
RECURSIVE lengthSum(_, _)
lengthSum(code, idx) ==
    IF idx = 0 THEN 0 ELSE code[idx].length + lengthSum(code, idx - 1)

\* toOriginalPos without the test for the middle of an added range
toOriginalPos_NoSpan(pos, code) ==
    [pos |-> pos - lengthSum(code, originalIdx(pos, code, 0)), inGenerated |-> FALSE]

toOriginalPos(pos, code) ==
    LET idx == originalIdx(pos, code, 0)
        total == lengthSum(code, idx)
    IN IF idx > 0 /\ pos > code[idx].generatedPos
                  /\ pos < code[idx].generatedPos + code[idx].length
       THEN [pos |-> code[idx].originalPos, inGenerated |-> TRUE]
       ELSE [pos |-> pos - total, inGenerated |-> FALSE]

(***************************************************************************)
(* Paths: path.basename, path.extname and the String methods used on them.  *)
(***************************************************************************)
\* s.endsWith(suffix)
endsWith(s, suffix) ==
    Len(suffix) <= Len(s) /\ SubSeq(s, Len(s) - Len(suffix) + 1, Len(s)) = suffix

\* s.includes(sub)
includes(s, sub) ==
    \E i \in 1..(Len(s) - Len(sub) + 1) : SubSeq(s, i, i + Len(sub) - 1) = sub

\* the 1-based index of the last occurrence of the character c in s, 0 when absent
lastIndexOf(s, c) ==
    LET hits == {i \in 1..Len(s) : SubSeq(s, i, i) = c}
    IN IF hits = {} THEN 0 ELSE CHOOSE i \in hits : \A j \in hits : j <= i

\* the 1-based index of the first occurrence of the character c in s, 0 when absent
indexOf(s, c) ==
    LET hits == {i \in 1..Len(s) : SubSeq(s, i, i) = c}
    IN IF hits = {} THEN 0 ELSE CHOOSE i \in hits : \A j \in hits : i <= j

\* path.basename(p) for a path that does not end in a slash
basename(p) == SubSeq(p, lastIndexOf(p, "/") + 1, Len(p))

\* path.extname(b) for a basename b: from the last dot on; empty when b has no
\* dot, when its only dot is its first character, and for ".."
extname(b) ==
    LET dot == lastIndexOf(b, ".")
    IN IF dot = 0 \/ dot = 1 \/ b = ".." THEN "" ELSE SubSeq(b, dot, Len(b))

\* basename.split('@')[0]
beforeAt(b) == SubSeq(b, 1, indexOf(b, "@") - 1)

kitPageFiles == {"+page", "+layout", "+page.server", "+layout.server", "+server"}

isKitRouteFile(b) ==
    LET stem == IF includes(b, "@") THEN beforeAt(b)
                ELSE SliceDropLast(b, Len(extname(b)))
    IN stem \in kitPageFiles

isServerHooksFile(f, b, serverHooksPath) ==
    \/ /\ b \in {"index.ts", "index.js"}
       /\ endsWith(SliceDropLast(f, Len(b) + 1), serverHooksPath)
    \/ endsWith(SliceDropLast(f, Len(extname(b))), serverHooksPath)

isClientHooksFile(f, b, clientHooksPath) ==
    \/ /\ b \in {"index.ts", "index.js"}
       /\ endsWith(SliceDropLast(f, Len(b) + 1), clientHooksPath)
    \/ endsWith(SliceDropLast(f, Len(extname(b))), clientHooksPath)

isParamsFile(f, b, paramsPath) ==
    /\ endsWith(SliceDropLast(f, Len(b) + 1), paramsPath)
    /\ ~includes(b, ".test")
    /\ ~includes(b, ".spec")

isKitFile(f, options) ==
    \/ isKitRouteFile(basename(f))
    \/ isServerHooksFile(f, basename(f), options.serverHooksPath)
    \/ isClientHooksFile(f, basename(f), options.clientHooksPath)
    \/ isParamsFile(f, basename(f), options.paramsPath)

(***************************************************************************)
(* The exports of a source file, as findExports returns them: a map from    *)
(* the exported name to an entry. An entry carries what sveltekit.ts reads  *)
(* of it: type, hasTypeDefinition and, of the node, the number of           *)
(* parameters, whether it declares a return type (node.type), whether it    *)
(* has a body, whether it is an arrow function, whether it has an           *)
(* initializer, and the offsets                                             *)
(*   paramEnd   parameters[0].getEnd()                                      *)
(*   returnPos  equalsGreaterThanToken.getStart() of an arrow function,     *)
(*              body.getStart() of another function                         *)
(*   nameEnd    name.getEnd() of a variable                                 *)
(*   initEnd    initializer.getEnd() of a variable                          *)
(***************************************************************************)
\* exports.get(name) is not undefined
has(exports, name) == name \in DOMAIN exports

\* surround(text): the caller's function wraps the text between two strings
\* (the default, the identity, wraps it between two empty strings)
surroundText(f, text) == f.prefix \o text \o f.suffix

\* addTypeToVariable without the hasTypeDefinition test
addTypeToVariable_IgnoreTyped(exports, sur, code, name, type) ==
    IF has(exports, name) /\ exports[name].type = "var" /\ exports[name].hasInitializer
    THEN insertCode(code, exports[name].nameEnd, surroundText(sur, " : " \o type))
    ELSE code

\* returns the ledger after the call (insert appends to the ledger of the strategy)
addTypeToVariable(exports, sur, code, name, type) ==
    IF /\ has(exports, name)
       /\ exports[name].type = "var"
       /\ ~exports[name].hasTypeDefinition
       /\ exports[name].hasInitializer
    THEN insertCode(code, exports[name].nameEnd, surroundText(sur, " : " \o type))
    ELSE code

\* the returnType argument left out (undefined), and the empty string, are falsy
NoReturnType == ""

addTypeToFunction(exports, sur, code, name, type, returnType) ==
    IF /\ has(exports, name)
       /\ exports[name].type = "function"
       /\ exports[name].parameters = 1
       /\ ~exports[name].hasTypeDefinition
    THEN LET fn == exports[name]
             paramInsertion ==
                 surroundText(sur, IF returnType = NoReturnType
                                   THEN ": Parameters<" \o type \o ">[0]"
                                   ELSE ": " \o type)
             withParam == insertCode(code, fn.paramEnd, paramInsertion)
             returnInsertion ==
                 surroundText(sur, IF returnType = NoReturnType
                                   THEN ": ReturnType<" \o type \o "> "
                                   ELSE ": " \o returnType \o " ")
         IN IF ~fn.hasType /\ fn.hasBody
            THEN insertCode(withParam, fn.returnPos, returnInsertion)
            ELSE withParam
    ELSE code

\* what a strategy returns: undefined (matched = FALSE) or addedCode and originalText
NoMatch == [matched |-> FALSE, addedCode |-> <<>>, originalText |-> ""]

Match(code, src) == [matched |-> TRUE, addedCode |-> code, originalText |-> src.text]

\* the annotation of load's parameter, from the basename
loadEventType(b) ==
    ": import('./$types.js')."
        \o (IF includes(b, "layout") THEN "Layout" ELSE "Page")
        \o (IF includes(b, "server") THEN "Server" ELSE "")
        \o "LoadEvent"

\* the load block written with addTypeToFunction, which also adds a return type
addTypeToLoad_WithReturnType(exports, sur, code, b) ==
    addTypeToFunction(exports, sur, code, "load",
                      SubSeq(loadEventType(b), 3, Len(loadEventType(b))), "unknown")

\* the load block of upserKitRouteFile
addTypeToLoad(exports, sur, code, b) ==
    IF /\ has(exports, "load")
       /\ exports["load"].type = "function"
       /\ exports["load"].parameters = 1
       /\ ~exports["load"].hasTypeDefinition
    THEN insertCode(code, exports["load"].paramEnd, surroundText(sur, loadEventType(b)))
    ELSE code

\* the actions block of upserKitRouteFile
addTypeToActions(exports, sur, code) ==
    IF /\ has(exports, "actions")
       /\ exports["actions"].type = "var"
       /\ ~exports["actions"].hasTypeDefinition
       /\ exports["actions"].hasInitializer
    THEN insertCode(code, exports["actions"].initEnd,
                    surroundText(sur, " satisfies import('./$types.js').Actions"))
    ELSE code

\* insertApiMethod of upserKitRouteFile
insertApiMethod(exports, sur, code, name) ==
    addTypeToFunction(exports, sur, code, name,
                      "import('./$types.js').RequestEvent", "Response | Promise<Response>")

\* the body of upserKitRouteFile once the source is there: the ledger after the
\* blocks for load, actions, the four page options and the six HTTP verbs
routeAddedCode(e, sur, b) ==
    LET c1 == addTypeToLoad(e, sur, <<>>, b)
        c2 == addTypeToActions(e, sur, c1)
        c3 == addTypeToVariable(e, sur, c2, "prerender", "boolean | 'auto'")
        c4 == addTypeToVariable(e, sur, c3, "trailingSlash", "'never' | 'always' | 'ignore'")
        c5 == addTypeToVariable(e, sur, c4, "ssr", "boolean")
        c6 == addTypeToVariable(e, sur, c5, "csr", "boolean")
        c7 == insertApiMethod(e, sur, c6, "GET")
        c8 == insertApiMethod(e, sur, c7, "PUT")
        c9 == insertApiMethod(e, sur, c8, "POST")
        c10 == insertApiMethod(e, sur, c9, "PATCH")
        c11 == insertApiMethod(e, sur, c10, "DELETE")
    IN insertApiMethod(e, sur, c11, "OPTIONS")

\* upserKitRouteFile returning undefined when it inserted nothing
upserKitRouteFile_UndefinedWhenEmpty(b, src, sur) ==
    IF ~isKitRouteFile(b) \/ ~src.available THEN NoMatch
    ELSE IF routeAddedCode(src.exports, sur, b) = <<>> THEN NoMatch
    ELSE Match(routeAddedCode(src.exports, sur, b), src)

upserKitRouteFile(b, src, sur) ==
    IF ~isKitRouteFile(b) THEN NoMatch
    ELSE IF ~src.available THEN NoMatch
    ELSE Match(routeAddedCode(src.exports, sur, b), src)

\* upserKitParamsFile without the isParamsFile test
upserKitParamsFile_NoGuard(f, b, paramsPath, src, sur) ==
    IF ~src.available THEN NoMatch
    ELSE Match(addTypeToFunction(src.exports, sur, <<>>, "match", "string", "boolean"), src)

upserKitParamsFile(f, b, paramsPath, src, sur) ==
    IF ~isParamsFile(f, b, paramsPath) THEN NoMatch
    ELSE IF ~src.available THEN NoMatch
    ELSE Match(addTypeToFunction(src.exports, sur, <<>>, "match", "string", "boolean"), src)

upserKitClientHooksFile(f, b, clientHooksPath, src, sur) ==
    IF ~isClientHooksFile(f, b, clientHooksPath) THEN NoMatch
    ELSE IF ~src.available THEN NoMatch
    ELSE Match(addTypeToFunction(src.exports, sur, <<>>, "handleError",
                                 "import('@sveltejs/kit').HandleClientError",
                                 NoReturnType), src)

upserKitServerHooksFile(f, b, serverHooksPath, src, sur) ==
    IF ~isServerHooksFile(f, b, serverHooksPath) THEN NoMatch
    ELSE IF ~src.available THEN NoMatch
    ELSE LET e == src.exports
             c1 == addTypeToFunction(e, sur, <<>>, "handleError",
                                     "import('@sveltejs/kit').HandleServerError",
                                     NoReturnType)
             c2 == addTypeToFunction(e, sur, c1, "handle",
                                     "import('@sveltejs/kit').Handle", NoReturnType)
             c3 == addTypeToFunction(e, sur, c2, "handleFetch",
                                     "import('@sveltejs/kit').HandleFetch", NoReturnType)
         IN Match(c3, src)

\* the loop of upsertKitFile that builds the generated text, from record i on,
\* with pos the original offset reached so far
RECURSIVE assembleFrom(_, _, _, _)
assembleFrom(originalText, code, i, pos) ==
    IF i > Len(code) THEN SliceFrom(originalText, pos)
    ELSE Slice(originalText, pos, code[i].originalPos) \o code[i].inserted
         \o assembleFrom(originalText, code, i + 1, code[i].originalPos)

\* what upsertKitFile returns: undefined (matched = FALSE) or text and addedCode
NoResult == [matched |-> FALSE, text |-> "", addedCode |-> <<>>]

\* a ?? b on strategy results
OrElse(a, b) == IF a.matched THEN a ELSE b

\* upsertKitFile trying the params strategy first
upsertKitFile_ParamsFirst(f, kitFilesSettings, src, sur) ==
    LET b == basename(f)
        r == OrElse(upserKitParamsFile(f, b, kitFilesSettings.paramsPath, src, sur),
             OrElse(upserKitRouteFile(b, src, sur),
             OrElse(upserKitServerHooksFile(f, b, kitFilesSettings.serverHooksPath, src, sur),
                    upserKitClientHooksFile(f, b, kitFilesSettings.clientHooksPath, src, sur))))
    IN IF ~r.matched THEN NoResult
       ELSE [matched |-> TRUE, addedCode |-> r.addedCode,
             text |-> assembleFrom(r.originalText, r.addedCode, 1, 0)]

\* upsertKitFile without the original text after the last insertion
upsertKitFile_NoTail(f, kitFilesSettings, src, sur) ==
    LET b == basename(f)
        r == OrElse(upserKitRouteFile(b, src, sur),
             OrElse(upserKitServerHooksFile(f, b, kitFilesSettings.serverHooksPath, src, sur),
             OrElse(upserKitClientHooksFile(f, b, kitFilesSettings.clientHooksPath, src, sur),
                    upserKitParamsFile(f, b, kitFilesSettings.paramsPath, src, sur))))
        lastPos == IF r.addedCode = <<>> THEN 0
                   ELSE r.addedCode[Len(r.addedCode)].originalPos
    IN IF ~r.matched THEN NoResult
       ELSE [matched |-> TRUE, addedCode |-> r.addedCode,
             text |-> SubSeq(assembleFrom(r.originalText, r.addedCode, 1, 0), 1,
                             lastPos + lengthSum(r.addedCode, Len(r.addedCode)))]

upsertKitFile(f, kitFilesSettings, src, sur) ==
    LET b == basename(f)
        r == OrElse(upserKitRouteFile(b, src, sur),
             OrElse(upserKitServerHooksFile(f, b, kitFilesSettings.serverHooksPath, src, sur),
             OrElse(upserKitClientHooksFile(f, b, kitFilesSettings.clientHooksPath, src, sur),
                    upserKitParamsFile(f, b, kitFilesSettings.paramsPath, src, sur))))
    IN IF ~r.matched THEN NoResult
       ELSE [matched |-> TRUE, addedCode |-> r.addedCode,
             text |-> assembleFrom(r.originalText, r.addedCode, 1, 0)]

(***************************************************************************)
(* Inputs of upsertKitFile.                                                 *)
(***************************************************************************)
Files ==
    {"src/routes/+page.ts", "src/routes/+layout.server.js", "src/routes/+server.ts",
     "src/routes/+page@admin.ts", "src/routes/+page", "src/routes/page.ts",
     "src/hooks.server.ts", "src/hooks.server/index.js", "src/hooks.client.ts",
     "src/params/word.ts", "src/params/word.test.ts", "src/params/+server.ts",
     "src/hooks/index.ts", "src/hooks.ts", "src/lib/util.ts"}

\* the default settings, settings whose three paths are the same directory, and
\* settings whose paths are matched by a route file
Settings ==
    {[serverHooksPath |-> "src/hooks.server", clientHooksPath |-> "src/hooks.client",
      paramsPath |-> "src/params"],
     [serverHooksPath |-> "src/hooks", clientHooksPath |-> "src/hooks",
      paramsPath |-> "src/hooks"],
     [serverHooksPath |-> "routes/+server", clientHooksPath |-> "+server",
      paramsPath |-> "src/routes"]}

\* the default surround (the identity) and one that wraps the text in comments
Surrounds ==
    {[prefix |-> "", suffix |-> ""], [prefix |-> "/*<*/", suffix |-> "/*>*/"]}

\* the names the four strategies look up, and one they do not
RouteNames ==
    {"load", "actions", "prerender", "trailingSlash", "ssr", "csr",
     "GET", "PUT", "POST", "PATCH", "DELETE", "OPTIONS"}

ServerHooksNames == {"handleError", "handle", "handleFetch"}

ClientHooksNames == {"handleError"}

ParamsNames == {"match"}

ExportNames == RouteNames \cup ServerHooksNames \cup ParamsNames \cup {"helper"}

\* the shapes of an export entry. An arrow function has a body; one written
\* without parentheses (arrow = "bare") has one parameter and no return type.
FunctionShapes ==
    {s \in [type : {"function"}, hasTypeDefinition : BOOLEAN, parameters : 0..2,
            hasType : BOOLEAN, hasBody : BOOLEAN, arrow : {"none", "parens", "bare"},
            hasInitializer : {FALSE}] :
        /\ (s.arrow # "none" => s.hasBody)
        /\ (s.arrow = "bare" => s.parameters = 1 /\ ~s.hasType)}

VarShapes ==
    [type : {"var"}, hasTypeDefinition : BOOLEAN, parameters : {0}, hasType : {FALSE},
     hasBody : {FALSE}, arrow : {"none"}, hasInitializer : BOOLEAN]

Shapes == FunctionShapes \cup VarShapes

\* the shapes that pass the checks of addTypeToFunction or addTypeToVariable
\* (of the arrow functions, those without parentheses: the others have the
\* offsets of a function declaration)
UntypedShapes ==
    {s \in Shapes :
        /\ ~s.hasTypeDefinition
        /\ s.arrow # "parens"
        /\ (s.type = "function" => s.parameters = 1 /\ s.hasBody)
        /\ (s.type = "var" => s.hasInitializer)}

\* the names used in source files of several statements
SeveralNames == {"actions", "GET", "handleError"}

\* the entry of the statement that starts at offset base: the offsets of its node
Entry(shape, base) ==
    [type |-> shape.type, hasTypeDefinition |-> shape.hasTypeDefinition,
     parameters |-> shape.parameters, hasType |-> shape.hasType,
     hasBody |-> shape.hasBody, arrow |-> shape.arrow,
     hasInitializer |-> shape.hasInitializer,
     nameEnd |-> base + 1,
     paramEnd |-> base + 2,
     returnPos |-> IF shape.arrow = "bare" THEN base + 2 ELSE base + 3,
     initEnd |-> base + StmtWidth]

Alphabet == "abcdefghijklmnopqrstuvwxyzABCDEFGHIJKLMNOPQRSTUVWXYZ"

\* the source file made of the statements stmts (each a name and a shape), one
\* after the other in the text
SourceOf(stmts) ==
    [available |-> TRUE,
     text |-> SubSeq(Alphabet, 1, Len(stmts) * StmtWidth),
     exports |-> [n \in {stmts[i].name : i \in 1..Len(stmts)} |->
                    LET i == CHOOSE i \in 1..Len(stmts) : stmts[i].name = n
                    IN Entry(stmts[i].shape, (i - 1) * StmtWidth)]]

\* getSource() returned undefined
NoSource == [available |-> FALSE, text |-> "", exports |-> <<>>]

\* sequences of n statements with different names
StmtSeqs(names, shapes, n) ==
    {q \in [1..n -> [name : names, shape : shapes]] :
        \A i, j \in 1..n : i # j => q[i].name # q[j].name}

\* the source files: no source, no export, one export of any name and shape, or
\* up to MaxStmts exports that pass the shape checks
Sources ==
    {NoSource, SourceOf(<<>>)}
    \cup {SourceOf(q) : q \in StmtSeqs(ExportNames, Shapes, 1)}
    \cup UNION {{SourceOf(q) : q \in StmtSeqs(SeveralNames, UntypedShapes, n)} : n \in 2..MaxStmts}

(***************************************************************************)
(* The instance script of a component, as processScriptTag parses it:      *)
(* tsAst.statements, each statement a record of the fields the code reads. *)
(* A statement starts with trivia characters of white space (node.pos is   *)
(* the offset where they start, node.getStart() the offset of the first    *)
(* token) and its tokens take StmtWidth characters; the next statement     *)
(* starts where it ends.  The component is the script block alone, so that *)
(* script.start = 0 and script.content.start is the length of the tag.     *)
(***************************************************************************)
NoStatement ==
    [kind |-> "", label |-> "", statement |-> "", expression |-> "",
     operator |-> "", left |-> "", exported |-> FALSE, binding |-> "",
     alias |-> "", name |-> "", trivia |-> 0]

\* label: statement, as in  $: x = 1,  $: o.x = 1,  $: x += 1,  $: f(x),  $: { }
Labeled(label, statement, expression, operator, left) ==
    [NoStatement EXCEPT !.kind = "LabeledStatement", !.label = label,
                        !.statement = statement, !.expression = expression,
                        !.operator = operator, !.left = left]

\* let x = ..  and  let {x} = ..,  with or without the export modifier
Variable(exported, binding) ==
    [NoStatement EXCEPT !.kind = "VariableStatement", !.exported = exported,
                        !.binding = binding]

\* function x() { },  with or without the export modifier
Function(exported) ==
    [NoStatement EXCEPT !.kind = "FunctionDeclaration", !.exported = exported]

\* export { x }  and  export { x as z }
Export(alias) ==
    [NoStatement EXCEPT !.kind = "ExportDeclaration", !.alias = alias]

\* x = 1  without a label, and  class x { }
Other(kind) == [NoStatement EXCEPT !.kind = kind]

ReactiveShape ==
    Labeled("$", "ExpressionStatement", "BinaryExpression", "=", "Identifier")

StatementShapes ==
    {ReactiveShape,
     Labeled("$", "ExpressionStatement", "BinaryExpression", "=", "PropertyAccessExpression"),
     Labeled("$", "ExpressionStatement", "BinaryExpression", "+=", "Identifier"),
     Labeled("$", "ExpressionStatement", "CallExpression", "", ""),
     Labeled("$", "Block", "", "", ""),
     Labeled("a", "ExpressionStatement", "BinaryExpression", "=", "Identifier"),
     Variable(FALSE, "Identifier"), Variable(TRUE, "Identifier"),
     Variable(FALSE, "ObjectBindingPattern"), Variable(TRUE, "ObjectBindingPattern"),
     Function(FALSE), Function(TRUE),
     Export(""), Export("z"),
     Other("ExpressionStatement"), Other("ClassDeclaration")}

\* the shapes of the scripts of several statements
SeveralShapes ==
    {ReactiveShape,
     Labeled("$", "ExpressionStatement", "BinaryExpression", "+=", "Identifier"),
     Variable(FALSE, "Identifier"), Variable(FALSE, "ObjectBindingPattern"),
     Variable(TRUE, "ObjectBindingPattern"),
     Function(TRUE), Export("z"), Other("ClassDeclaration")}

ScriptNames == {"x", "y"}

Trivia == {0, 1}

StatementsOf(shapes) ==
    {[s EXCEPT !.name = n, !.trivia = t] : s \in shapes, n \in ScriptNames, t \in Trivia}

Scripts ==
    {<<>>}
    \cup {<<s>> : s \in StatementsOf(StatementShapes)}
    \cup UNION {[1..n -> StatementsOf(SeveralShapes)] : n \in 2..MaxStmts}

\* node.end of statement i, and 0 for i = 0
RECURSIVE endOf(_, _)
endOf(statements, i) ==
    IF i = 0 THEN 0
    ELSE endOf(statements, i - 1) + statements[i].trivia + StmtWidth

\* node.pos of statement i: where its leading trivia starts
posOf(statements, i) == endOf(statements, i - 1)

\* node.getStart() of statement i: where its first token starts
startOf(statements, i) == posOf(statements, i) + statements[i].trivia

\* script.content.start
astOffset == Len("<script>")

(***************************************************************************)
(* The MagicString str: the edits made to the text of the component, each  *)
(* kind in the order of the calls, and whether the run ended in a throw.   *)
(***************************************************************************)
NoEdits ==
    [threw |-> FALSE, prepended |-> <<>>, removed |-> <<>>,
     overwritten |-> <<>>, appended |-> <<>>]

prependRight(str, index, content) ==
    [str EXCEPT !.prepended = Append(@, [index |-> index, content |-> content])]

remove(str, start, end) ==
    [str EXCEPT !.removed = Append(@, [start |-> start, end |-> end])]

overwrite(str, start, end, content) ==
    [str EXCEPT !.overwritten =
                    Append(@, [start |-> start, end |-> end, content |-> content])]

append(str, content) == [str EXCEPT !.appended = Append(@, content)]

\* declaredNames.find(n => ident.text == n), as a condition
find(declaredNames, text) ==
    \E k \in 1..Len(declaredNames) : declaredNames[k] = text

\* the body of the loop of declareImplictReactiveVariables, for statement i
declareStatement(declaredNames, str, statements, i) ==
    LET ls == statements[i]
    IN IF ls.kind # "LabeledStatement" THEN str
       ELSE IF ls.label # "$" THEN str
       ELSE IF ls.statement # "ExpressionStatement" THEN str
       ELSE IF ls.expression # "BinaryExpression" THEN str
       ELSE IF ls.operator # "=" \/ ls.left # "Identifier" THEN str
       ELSE IF find(declaredNames, ls.name) THEN str
       ELSE prependRight(str, posOf(statements, i) + astOffset + 1,
                         ";let " \o ls.name \o "; ")

RECURSIVE declareFrom(_, _, _, _)
declareFrom(declaredNames, str, statements, i) ==
    IF i > Len(statements) THEN str
    ELSE declareFrom(declaredNames,
                     declareStatement(declaredNames, str, statements, i),
                     statements, i + 1)

declareImplictReactiveVariables(declaredNames, str, statements) ==
    declareFrom(declaredNames, str, statements, 1)

\* exportedNames.set(key, value): a Map keeps the order of first insertion
set(map, key, value) ==
    IF \E k \in 1..Len(map) : map[k].key = key
    THEN [k \in 1..Len(map) |->
             IF map[k].key = key THEN [key |-> key, value |-> value] ELSE map[k]]
    ELSE Append(map, [key |-> key, value |-> value])

\* r is what replaceExports has built so far: str, exportedNames, declaredNames
addDeclaredName(r, binding, name) ==
    IF binding = "Identifier"
    THEN [r EXCEPT !.declaredNames = Append(@, name)]
    ELSE r

\* a target of "" is null; a name that is not an identifier makes it throw
addExport(r, binding, name, target) ==
    IF binding # "Identifier"
    THEN [r EXCEPT !.str.threw = TRUE]
    ELSE [r EXCEPT !.exportedNames = set(@, name, target)]

\* indexOf("export", start + astOffset) is the first token of statement i
removeExport(r, statements, i) ==
    LET exportStart == startOf(statements, i) + astOffset
        exportEnd == exportStart + Len("export")
    IN [r EXCEPT !.str = remove(@, exportStart, exportEnd)]

\* the body of the loop of replaceExports, for statement i
replaceStatement(r, statements, i) ==
    LET s == statements[i]
    IN CASE s.kind = "VariableStatement" ->
              LET removed == IF s.exported THEN removeExport(r, statements, i) ELSE r
                  added == IF s.exported
                           THEN addExport(removed, s.binding, s.name, "")
                           ELSE removed
              IN IF added.str.threw THEN added
                 ELSE addDeclaredName(added, s.binding, s.name)
         [] s.kind = "FunctionDeclaration" ->
              addDeclaredName(
                  IF s.exported
                  THEN removeExport(addExport(r, "Identifier", s.name, ""), statements, i)
                  ELSE r,
                  "Identifier", s.name)
         [] s.kind = "ExportDeclaration" ->
              removeExport(addExport(r, "Identifier", s.name, s.alias), statements, i)
         [] OTHER -> r

RECURSIVE replaceFrom(_, _, _)
replaceFrom(r, statements, i) ==
    IF r.str.threw \/ i > Len(statements) THEN r
    ELSE replaceFrom(replaceStatement(r, statements, i), statements, i + 1)

replaceExports(str, statements) ==
    replaceFrom([str |-> str, exportedNames |-> <<>>, declaredNames |-> <<>>],
                statements, 1)

\* returnElements.join(" , ") from entry i on
RECURSIVE joinFrom(_, _)
joinFrom(exportedNames, i) ==
    IF i > Len(exportedNames) THEN ""
    ELSE (IF i > 1 THEN " , " ELSE "")
         \o (IF exportedNames[i].value # ""
             THEN exportedNames[i].value \o ": " \o exportedNames[i].key
             ELSE exportedNames[i].key)
         \o joinFrom(exportedNames, i + 1)

\* a component without slots: slotsAsString is "{}"
returnString(exportedNames) ==
    "\nreturn { props: {" \o joinFrom(exportedNames, 1) \o "}, slots: {} }}"

\* processScriptTag on the script block with these statements; they hold no
\* import, so that processImports has nothing to move
processScriptTag(statements) ==
    LET contentEnd == astOffset + endOf(statements, Len(statements))
        scriptEnd == contentEnd + Len("</script>")
        tags == overwrite(
                    overwrite(
                        overwrite(NoEdits, 0, 1, "</>;"),
                        1, astOffset, "function render() {\n"),
                    contentEnd, scriptEnd, ";\n<>")
        r == replaceExports(tags, statements)
    IN IF r.str.threw THEN r.str
       ELSE append(declareImplictReactiveVariables(r.declaredNames, r.str, statements),
                   returnString(r.exportedNames))

(***************************************************************************)
(* The state: addedCode is the ledger under construction or the one        *)
(* upsertKitFile returned; last is the last call made, with its argument   *)
(* and result; fileName, settings, source and surround are the arguments   *)
(* of the upsertKitFile call and result is what it returned; tsAst is the  *)
(* script processScriptTag was given, magicString the edits made to str.   *)
(***************************************************************************)
Call(op, arg, pos, inGenerated, from) ==
    [op |-> op, arg |-> arg, pos |-> pos, inGenerated |-> inGenerated, from |-> from]

NoCall == Call("none", -1, -1, FALSE, -1)

Init ==
    /\ addedCode = <<>>
    /\ last = NoCall
    /\ fileName = ""
    /\ settings = [serverHooksPath |-> "", clientHooksPath |-> "", paramsPath |-> ""]
    /\ source = NoSource
    /\ surround = [prefix |-> "", suffix |-> ""]
    /\ result = NoResult
    /\ tsAst = <<>>
    /\ magicString = NoEdits

kitVars == <<fileName, settings, source, surround, result>>

scriptVars == <<tsAst, magicString>>

\* the texts insertCode is called with: one of each length up to MaxLen
InsertedTexts == {SubSeq(Alphabet, 1, n) : n \in 0..MaxLen}

\* the total of the last record: the length added to the original text
addedTotal(code) == IF code = <<>> THEN 0 ELSE code[Len(code)].total

\* insertCode(addedCode, pos, inserted), at any position
InsertCode ==
    /\ last.op # "upsertKitFile"
    /\ Len(addedCode) < MaxInserts
    /\ \E pos \in 0..MaxPos, inserted \in InsertedTexts :
          /\ addedCode' = insertCode(addedCode, pos, inserted)
          /\ last' = Call("insertCode", pos, -1, FALSE, -1)
    /\ UNCHANGED <<kitVars, scriptVars>>

\* insertCode(addedCode, pos, inserted), at a position after all those used
InsertCodeAscending ==
    /\ last.op # "upsertKitFile"
    /\ Len(addedCode) < MaxInserts
    /\ \E pos \in 0..MaxPos, inserted \in InsertedTexts :
          /\ \A i \in 1..Len(addedCode) : addedCode[i].originalPos < pos
          /\ addedCode' = insertCode(addedCode, pos, inserted)
          /\ last' = Call("insertCode", pos, -1, FALSE, -1)
    /\ UNCHANGED <<kitVars, scriptVars>>

\* toVirtualPos(pos, addedCode) for an offset of the original text
ToVirtualPos ==
    /\ \E pos \in 0..MaxPos :
          last' = Call("toVirtualPos", pos, toVirtualPos(pos, addedCode), FALSE, -1)
    /\ UNCHANGED <<addedCode, kitVars, scriptVars>>

\* toOriginalPos(pos, addedCode) for an offset of the generated text; from is the
\* original offset when pos is what the toVirtualPos call just before returned
ToOriginalPos ==
    /\ \E pos \in 0..(MaxPos + addedTotal(addedCode)) :
          LET r == toOriginalPos(pos, addedCode)
          IN last' = Call("toOriginalPos", pos, r.pos, r.inGenerated,
                          IF last.op = "toVirtualPos" /\ last.pos = pos
                          THEN last.arg ELSE -1)
    /\ UNCHANGED <<addedCode, kitVars, scriptVars>>

\* upsertKitFile(ts, fileName, kitFilesSettings, getSource, surround)
UpsertKitFile ==
    /\ last = NoCall
    /\ \E f \in Files, k \in Settings, src \in Sources, sur \in Surrounds :
          /\ fileName' = f
          /\ settings' = k
          /\ source' = src
          /\ surround' = sur
          /\ result' = upsertKitFile(f, k, src, sur)
          /\ addedCode' = result'.addedCode
    /\ last' = Call("upsertKitFile", -1, -1, FALSE, -1)
    /\ UNCHANGED scriptVars

\* processScriptTag(str, ast, slots, target) on a component that is one script
ProcessScriptTag ==
    /\ last = NoCall
    /\ \E statements \in Scripts :
          /\ tsAst' = statements
          /\ magicString' = processScriptTag(statements)
    /\ last' = Call("processScriptTag", -1, -1, FALSE, -1)
    /\ UNCHANGED <<addedCode, kitVars>>

Next == InsertCode \/ ToVirtualPos \/ ToOriginalPos

Spec == Init /\ [][Next]_vars

NextAscending == InsertCodeAscending \/ ToVirtualPos \/ ToOriginalPos

SpecAscending == Init /\ [][NextAscending]_vars

NextKit == UpsertKitFile

SpecKit == Init /\ [][NextKit]_vars

NextScript == ProcessScriptTag

SpecScript == Init /\ [][NextScript]_vars

(***************************************************************************)
(* Properties of the ledger.                                               *)
(***************************************************************************)
\* the length of the generated text
generatedLength == MaxPos + addedTotal(addedCode)

\* C1: with insertCode called at strictly increasing positions, every offset p
\* of the original text comes back from toOriginalPos(toVirtualPos(p)) as p with
\* inGenerated = false; so does the round trip the last two calls made.
C1_RoundTrip ==
    /\ \A p \in 0..MaxPos :
          toOriginalPos(toVirtualPos(p, addedCode), addedCode)
              = [pos |-> p, inGenerated |-> FALSE]
    /\ (last.op = "toOriginalPos" /\ last.from >= 0)
          => (last.pos = last.from /\ ~last.inGenerated)

\* a round trip was made from an offset at or after two insertions of some length
C1_Witness ==
    /\ last.op = "toOriginalPos"
    /\ last.from >= 0
    /\ Len(addedCode) >= 2
    /\ addedCode[1].length > 0
    /\ addedCode[2].length > 0
    /\ last.from >= addedCode[2].originalPos
    /\ last.arg = last.from + addedCode[2].total

\* the records whose span holds the generated offset g strictly inside
spansAround(g) ==
    {i \in 1..Len(addedCode) :
        /\ addedCode[i].generatedPos < g
        /\ g < addedCode[i].generatedPos + addedCode[i].length}

\* what C2 says toOriginalPos returns for the generated offset g
spanAnswer(g, r) ==
    IF spansAround(g) = {} THEN ~r.inGenerated
    ELSE r.inGenerated /\ \A i \in spansAround(g) : r.pos = addedCode[i].originalPos

\* C2: toOriginalPos of a generated offset strictly inside a record's span returns
\* inGenerated = true and the record's originalPos; of any other offset it returns
\* inGenerated = false.
C2_InsideSpan ==
    /\ \A g \in 0..generatedLength : spanAnswer(g, toOriginalPos(g, addedCode))
    /\ last.op = "toOriginalPos" => spanAnswer(last.arg, last)

\* toOriginalPos was called inside the span of the second of three records
C2_Witness ==
    /\ last.op = "toOriginalPos"
    /\ last.inGenerated
    /\ Len(addedCode) = 3
    /\ spansAround(last.arg) = {2}

\* C3 as stated: the ledger is strictly ordered by originalPos, no two records
\* share an originalPos.
C3_StrictlyOrdered ==
    \A i, j \in 1..Len(addedCode) :
        i < j => addedCode[i].originalPos < addedCode[j].originalPos

\* C3, amended: the ledger is ordered by originalPos, and records may share one.
C3_Ordered ==
    \A i, j \in 1..Len(addedCode) :
        i < j => addedCode[i].originalPos <= addedCode[j].originalPos

\* upsertKitFile returned a ledger with two records at the same originalPos,
\* after a record at a smaller one
C3_Witness ==
    /\ last.op = "upsertKitFile"
    /\ Len(addedCode) = 3
    /\ addedCode[1].originalPos < addedCode[2].originalPos
    /\ addedCode[2].originalPos = addedCode[3].originalPos

\* record i has the total and the generatedPos its predecessors give it
recordConsistent(code, i) ==
    /\ code[i].length = Len(code[i].inserted)
    /\ code[i].total = lengthSum(code, i)
    /\ code[i].generatedPos
          = code[i].originalPos + (IF i = 1 THEN 0 ELSE code[i - 1].total)

\* code2 is code with one record of length n put at index k: the records before
\* it are unchanged, those after it are shifted by n
insertedAt(code, code2, k, n) ==
    /\ Len(code2) = Len(code) + 1
    /\ code2[k].length = n
    /\ \A i \in 1..(k - 1) : code2[i] = code[i]
    /\ \A i \in k..Len(code) :
          code2[i + 1] = [code[i] EXCEPT !.generatedPos = @ + n, !.total = @ + n]

\* C4: whatever the order of the insertCode calls, total of record i is the sum
\* of the lengths of records 0..i and generatedPos is originalPos plus the total
\* of the record before; each call puts one record in, shifts generatedPos and
\* total of the records after it by the inserted length and leaves the records
\* before it as they were.
C4_Totals ==
    /\ [](\A i \in 1..Len(addedCode) : recordConsistent(addedCode, i))
    /\ [][addedCode' # addedCode =>
             \E k \in 1..(Len(addedCode) + 1), n \in 0..(MaxLen + 1) :
                 insertedAt(addedCode, addedCode', k, n)]_vars

\* the last call put a record of some length between two records
C4_Witness ==
    /\ last.op = "insertCode"
    /\ Len(addedCode) = 3
    /\ addedCode[2].originalPos = last.arg
    /\ addedCode[2].length > 0
    /\ addedCode[1].originalPos < last.arg
    /\ last.arg < addedCode[3].originalPos
    /\ addedCode[1].length > 0

(***************************************************************************)
(* Properties of upsertKitFile.                                            *)
(***************************************************************************)
called == last.op = "upsertKitFile"

\* text without the spans of records 1..i
RECURSIVE removeSpans(_, _, _)
removeSpans(text, code, i) ==
    IF i = 0 THEN text
    ELSE removeSpans(SubSeq(text, 1, code[i].generatedPos)
                         \o SubSeq(text, code[i].generatedPos + code[i].length + 1, Len(text)),
                     code, i - 1)

\* C5: the text upsertKitFile returns is the original text with every record's
\* inserted text at its generatedPos: its length is the original length plus the
\* last total, each span holds the record's text, and without the spans it is
\* the original text.
C5_Assembled ==
    (called /\ result.matched) =>
        /\ Len(result.text) = Len(source.text) + addedTotal(result.addedCode)
        /\ \A i \in 1..Len(result.addedCode) :
              LET r == result.addedCode[i]
              IN SubSeq(result.text, r.generatedPos + 1, r.generatedPos + r.length)
                     = r.inserted
        /\ removeSpans(result.text, result.addedCode, Len(result.addedCode)) = source.text

\* a text was returned with three surrounded insertions, the call for the later
\* export made first, and original text before and between the insertions
C5_Witness ==
    /\ called
    /\ result.matched
    /\ Len(result.addedCode) = 3
    /\ has(source.exports, "actions")
    /\ has(source.exports, "GET")
    /\ source.exports["GET"].paramEnd < source.exports["actions"].initEnd
    /\ 0 < result.addedCode[1].originalPos
    /\ result.addedCode[1].originalPos < result.addedCode[2].originalPos
    /\ result.addedCode[2].originalPos < result.addedCode[3].originalPos
    /\ surround.prefix # ""

\* C6: for a path that is not a kit file upsertKitFile returns undefined and
\* inserts nothing; whenever it returns a result the path is a kit file.
C6_NotKitFile ==
    called =>
        LET kit == isKitFile(fileName, settings)
        IN /\ (~kit => result = NoResult /\ addedCode = <<>>)
           /\ (result.matched => kit)

\* upsertKitFile was called for the test file of a params directory, with a
\* source whose match export would take an annotation
C6_Witness ==
    /\ called
    /\ ~isKitFile(fileName, settings)
    /\ endsWith(SliceDropLast(fileName, Len(basename(fileName)) + 1), settings.paramsPath)
    /\ source.available
    /\ has(source.exports, "match")
    /\ source.exports["match"] \in {Entry(sh, 0) : sh \in UntypedShapes}
    /\ ~result.matched

\* the kind of a path: the first of route, server hooks, client hooks, params
\* that it matches
kindOf(f, k) ==
    IF isKitRouteFile(basename(f)) THEN "route"
    ELSE IF isServerHooksFile(f, basename(f), k.serverHooksPath) THEN "serverHooks"
    ELSE IF isClientHooksFile(f, basename(f), k.clientHooksPath) THEN "clientHooks"
    ELSE IF isParamsFile(f, basename(f), k.paramsPath) THEN "params"
    ELSE "none"

\* the well-known exports of a kind
namesOf(kind) ==
    CASE kind = "route" -> RouteNames
      [] kind = "serverHooks" -> ServerHooksNames
      [] kind = "clientHooks" -> ClientHooksNames
      [] kind = "params" -> ParamsNames
      [] OTHER -> {}

\* the annotations of a hooks function typed as type
hookAnnotations(type) ==
    {": Parameters<import('@sveltejs/kit')." \o type \o ">[0]",
     ": ReturnType<import('@sveltejs/kit')." \o type \o "> "}

\* the annotations a kind inserts
annotationsOf(kind) ==
    CASE kind = "route" ->
             {": import('./$types.js').PageLoadEvent",
              ": import('./$types.js').PageServerLoadEvent",
              ": import('./$types.js').LayoutLoadEvent",
              ": import('./$types.js').LayoutServerLoadEvent",
              " satisfies import('./$types.js').Actions",
              " : boolean | 'auto'", " : 'never' | 'always' | 'ignore'", " : boolean",
              ": import('./$types.js').RequestEvent", ": Response | Promise<Response> "}
      [] kind = "serverHooks" ->
             hookAnnotations("HandleServerError") \cup hookAnnotations("Handle")
                 \cup hookAnnotations("HandleFetch")
      [] kind = "clientHooks" -> hookAnnotations("HandleClientError")
      [] kind = "params" -> {": string", ": boolean "}
      [] OTHER -> {}

\* the offsets at which annotations of an entry go
offsetsOf(entry) ==
    IF entry.type = "var" THEN {entry.nameEnd, entry.initEnd}
    ELSE {entry.paramEnd, entry.returnPos}

\* the indexes of the records of the ledger code placed in an entry
recordsOf(code, entry) ==
    {i \in 1..Len(code) : code[i].originalPos \in offsetsOf(entry)}

\* C7: the strategies are tried in the order route, server hooks, client hooks,
\* params and the first kind the path matches wins: a result comes from that
\* kind alone, every record is an annotation of that kind placed in one of its
\* well-known exports, also when the path matches a later kind too.
C7_FirstMatchWins ==
    (called /\ result.matched) =>
        LET kind == kindOf(fileName, settings)
        IN /\ kind # "none"
           /\ \A i \in 1..Len(result.addedCode) :
                 /\ \E a \in annotationsOf(kind) :
                       result.addedCode[i].inserted = surroundText(surround, a)
                 /\ \E n \in namesOf(kind) :
                       /\ has(source.exports, n)
                       /\ i \in recordsOf(result.addedCode, source.exports[n])

\* a route file in the params directory, or matching the hooks paths, exports
\* an untyped match or handle function and gets a result without insertions
C7_Witness ==
    /\ called
    /\ result.matched
    /\ isKitRouteFile(basename(fileName))
    /\ \/ isParamsFile(fileName, basename(fileName), settings.paramsPath)
       \/ isServerHooksFile(fileName, basename(fileName), settings.serverHooksPath)
    /\ \E n \in {"match", "handle"} :
          /\ has(source.exports, n)
          /\ source.exports[n] \in {Entry(sh, 0) : sh \in UntypedShapes}
    /\ result.addedCode = <<>>

\* the well-known exports that are variables; the others are functions
VarNames == {"actions", "prerender", "trailingSlash", "ssr", "csr"}

\* the export n exists, has the shape expected of it and no type definition
qualifies(exports, n) ==
    /\ has(exports, n)
    /\ ~exports[n].hasTypeDefinition
    /\ IF n \in VarNames
       THEN exports[n].type = "var" /\ exports[n].hasInitializer
       ELSE exports[n].type = "function" /\ exports[n].parameters = 1

\* the file is of a recognized kind, its source is there, and none of the
\* well-known exports of the kind qualifies
nothingQualifies ==
    /\ called
    /\ source.available
    /\ LET kind == kindOf(fileName, settings)
       IN kind # "none" /\ \A n \in namesOf(kind) : ~qualifies(source.exports, n)

\* C8 as stated: a file of a recognized kind without qualifying exports gets
\* the no-match result.
C8_NoMatchWithoutExports == nothingQualifies => result = NoResult

\* C8, amended: such a file gets a result, with an empty ledger and the original
\* text as text; the no-match result is returned only when the path is of no
\* kind or the source is missing.
C8_EmptyResultWithoutExports ==
    /\ nothingQualifies =>
          /\ result.matched
          /\ result.addedCode = <<>>
          /\ result.text = source.text
    /\ called => (~result.matched <=> (kindOf(fileName, settings) = "none" \/ ~source.available))

\* a hooks file whose only export is a typed handle function
C8_Witness ==
    /\ nothingQualifies
    /\ kindOf(fileName, settings) = "serverHooks"
    /\ has(source.exports, "handle")
    /\ source.exports["handle"].hasTypeDefinition
    /\ source.text # ""
    /\ result.matched

\* the file is a route file with its source, and load is a function of one
\* parameter without type definition
loadIsUntyped ==
    /\ called
    /\ isKitRouteFile(basename(fileName))
    /\ source.available
    /\ has(source.exports, "load")
    /\ source.exports["load"].type = "function"
    /\ source.exports["load"].parameters = 1
    /\ ~source.exports["load"].hasTypeDefinition

\* the records placed in load
loadRecords == recordsOf(result.addedCode, source.exports["load"])

\* C9 as stated: an untyped load of one parameter gets two insertions, at the
\* end of the parameter and before the body, and none when it declares a return
\* type.
C9_TwoInsertionsForLoad ==
    /\ (loadIsUntyped /\ ~source.exports["load"].hasType /\ source.exports["load"].hasBody)
          => /\ Cardinality(loadRecords) = 2
             /\ \E i, j \in loadRecords :
                   /\ i # j
                   /\ result.addedCode[i].originalPos = source.exports["load"].paramEnd
                   /\ result.addedCode[j].originalPos = source.exports["load"].returnPos
    /\ (loadIsUntyped /\ source.exports["load"].hasType) => loadRecords = {}

\* C9, amended: a load function of one parameter without type definition gets one
\* insertion, the type of the parameter at the end of the parameter, whether or
\* not it declares a return type; a load with a type definition gets none.
C9_OneInsertionForLoad ==
    /\ loadIsUntyped =>
          /\ Cardinality(loadRecords) = 1
          /\ \A i \in loadRecords :
                /\ result.addedCode[i].originalPos = source.exports["load"].paramEnd
                /\ result.addedCode[i].inserted
                      = surroundText(surround, loadEventType(basename(fileName)))
    /\ (/\ called
        /\ result.matched
        /\ has(source.exports, "load")
        /\ source.exports["load"].hasTypeDefinition)
          => loadRecords = {}

\* load is a function declaration with a body and a return type, in a layout
\* server file
C9_Witness ==
    /\ loadIsUntyped
    /\ source.exports["load"].hasType
    /\ source.exports["load"].hasBody
    /\ source.exports["load"].arrow = "none"
    /\ includes(basename(fileName), "layout")
    /\ Cardinality(loadRecords) = 1

\* C10: every record of the ledger upsertKitFile returns is placed in a
\* well-known export of the kind of the file that exists, has the expected
\* shape and has hasTypeDefinition = false; an export with a type definition
\* gets no record.
C10_OnlyUntypedExports ==
    (called /\ result.matched) =>
        /\ result.addedCode # <<>> =>
              LET names == namesOf(kindOf(fileName, settings))
              IN \A i \in 1..Len(result.addedCode) :
                    \E n \in names :
                        /\ qualifies(source.exports, n)
                        /\ i \in recordsOf(result.addedCode, source.exports[n])
        /\ \A n \in DOMAIN source.exports :
              source.exports[n].hasTypeDefinition
                  => recordsOf(result.addedCode, source.exports[n]) = {}

\* a file of each kind was given a typed export of the shape its strategy
\* annotates
C10_Witness ==
    /\ called
    /\ result.matched
    /\ \E n \in namesOf(kindOf(fileName, settings)) :
          /\ has(source.exports, n)
          /\ source.exports[n].hasTypeDefinition
          /\ qualifies([source.exports EXCEPT ![n].hasTypeDefinition = FALSE], n)
          /\ n \in VarNames

(***************************************************************************)
(* Properties of the forward declarations of reactive assignments.         *)
(***************************************************************************)
\* statement s is  $: x = ..  with x a bare identifier
isReactiveAssignment(s) ==
    /\ s.kind = "LabeledStatement"
    /\ s.label = "$"
    /\ s.statement = "ExpressionStatement"
    /\ s.expression = "BinaryExpression"
    /\ s.operator = "="
    /\ s.left = "Identifier"

\* the names the top-level variable and function declarations of the script declare
declaredAtTopLevel(statements) ==
    {statements[i].name :
        i \in {k \in 1..Len(statements) :
                  statements[k].kind \in {"VariableStatement", "FunctionDeclaration"}}}

\* the texts prepended within statement i: from the start of its leading white
\* space up to, not including, the offset where it ends
prependedAt(i) ==
    {e \in {magicString.prepended[k] : k \in 1..Len(magicString.prepended)} :
        /\ posOf(tsAst, i) <= e.index - astOffset
        /\ e.index - astOffset < endOf(tsAst, i)}

\* let x is prepended immediately before statement i: only white space of the
\* statement lies between the prepended text and its first token
declaredBefore(i, x) ==
    \E e \in prependedAt(i) :
        /\ e.content = ";let " \o x \o "; "
        /\ e.index - astOffset <= startOf(tsAst, i)

\* C11: when processScriptTag returns, every top-level statement that is a $:
\* assignment to a bare identifier x has  let x  prepended immediately before it
\* if and only if x is not among the names declared by the top-level variable and
\* function declarations of the script, and nothing is prepended at any other
\* statement.
C11_ForwardDeclarations ==
    (last.op = "processScriptTag" /\ ~magicString.threw) =>
        \A i \in 1..Len(tsAst) :
            IF isReactiveAssignment(tsAst[i])
            THEN declaredBefore(i, tsAst[i].name)
                     <=> tsAst[i].name \notin declaredAtTopLevel(tsAst)
            ELSE prependedAt(i) = {}

(***************************************************************************)
(* Properties of the route file predicate.                                 *)
(***************************************************************************)
\* the basename truncated at its first @, or else without its trailing
\* extension: all of it when it has none
strippedName(b) ==
    IF includes(b, "@") THEN SubSeq(b, 1, indexOf(b, "@") - 1)
    ELSE SubSeq(b, 1, Len(b) - Len(extname(b)))

\* C12: for the basename B of every file upsertKitFile is called with,
\* isKitRouteFile(B) is true exactly when B without its trailing extension (or
\* truncated at its first @) is one of +page, +layout, +page.server,
\* +layout.server, +server; also when B has no extension at all.
C12_RouteFileByStrippedName ==
    called =>
        LET b == basename(fileName)
        IN isKitRouteFile(b) <=> strippedName(b) \in kitPageFiles

(***************************************************************************)
(* Properties of toOriginalPos over the whole generated text.              *)
(***************************************************************************)
\* C13: with insertCode called at strictly increasing positions, toOriginalPos
\* is monotone and in range over the generated text: for generated offsets
\* g1 <= g2 in 0..generatedLength, toOriginalPos(g1).pos <= toOriginalPos(g2).pos,
\* and every result is an offset of the original text, in 0..MaxPos; so is the
\* result of the toOriginalPos call just made.  The offsets include the
\* generatedPos of each record, the first character of its inserted text.
C13_MonotoneInRange ==
    /\ \A g1 \in 0..generatedLength, g2 \in 0..generatedLength :
          g1 <= g2 =>
              toOriginalPos(g1, addedCode).pos <= toOriginalPos(g2, addedCode).pos
    /\ \A g \in 0..generatedLength : toOriginalPos(g, addedCode).pos \in 0..MaxPos
    /\ last.op = "toOriginalPos" => last.pos \in 0..MaxPos
====
